---- MODULE Spec2Model ----
(***************************************************************************)
(* skada.feature.base.BaseDANetwork: the dual-stream (source/target)       *)
(* training loop of a domain-adaptation estimator built on skorch's        *)
(* NeuralNetClassifier.                                                    *)
(*                                                                         *)
(* One estimator is modelled over a sequence of fit / partial_fit calls.   *)
(* A call is a sequential program; pc is its position.  The steps are the  *)
(* statements of partial_fit, fit_loop and run_single_epoch; train_step    *)
(* (the optimizer step with its closure) is one step.  A KeyboardInterrupt *)
(* may arrive at any position inside fit_loop, and inside train_step after *)
(* any evaluation of the closure.  An error raised by the module or the     *)
(* loss ends the call with the exception; the caller then drops the        *)
(* estimator.                                                              *)
(*                                                                         *)
(* Batches are abstracted to (stream, index, size); tensors to tokens that *)
(* name the forward pass that produced them.                               *)
(***************************************************************************)
EXTENDS Integers, Sequences, FiniteSets, TLC

\* No history ever holds more than MaxEpochs epochs: a call is only started
\* when the epochs it asks for still fit.
MaxEpochs == 2
\* The optimizer evaluates the closure between 1 and MaxClosure times per step.
MaxClosure == 2
\* initialize() runs at most MaxInitialize times on a module the caller passed
\* as an instance.
MaxInitialize == 2
\* Longest source iterator of PassSpec, in batches.
MaxBatches == 3

VARIABLES
    \* ---- constructor parameters and call data (fixed after Init)
    warm_start,          \* skorch parameter warm_start
    closures,            \* closure evaluations the optimizer makes per step
    accumulator,         \* which step the train-step accumulator keeps
    data,                \* batch sizes of the train / target / valid iterators
    module,              \* self.module: a module "class" or a module "instance"
    module_layers,       \* the named layers of that module
    \* ---- estimator state
    initialized_,        \* self.initialized_
    params,              \* learnable parameters: optimizer updates since init
    grads,               \* accumulated gradients: backward passes since zero_grad
    training,            \* module train/eval mode
    history,             \* self.history
    intermediate_layers, \* self.intermediate_layers
    module_,             \* self.module_: "none", the "given" instance, or one "built"
    hooks,               \* capture hooks on self.module_, per declared layer
    \* ---- the running call
    pc,                  \* position in fit / partial_fit / fit_loop / run_single_epoch
    kind,                \* the method the caller invoked: "fit" or "partial_fit"
    epochsArg,           \* the epochs argument: <<>> is None, <<n>> is n
    epochs,              \* fit_loop's local epochs
    epoch,               \* completed iterations of `for _ in range(epochs)`
    cursor,              \* 1-based position of `for batch in iterator`
    batch_count,         \* run_single_epoch's local batch_count
    step,                \* the step returned by step_fn: <<>> or <<step>>
    \* ---- observation of the running call (not program state)
    trace,               \* notifications and primitive calls, in order
    lossArgs,            \* arguments of the last _get_loss_da call: <<>> or <<args>>
    step_accumulator,    \* what the accumulator of the last train_step held at its end
    outcome,             \* how the last call ended: "returned" or "raised"
    interrupted,         \* a KeyboardInterrupt arrived inside fit_loop
    prevKind             \* the method of the previous call

vars == <<warm_start, closures, accumulator, data, module, module_layers,
          initialized_, params, grads, training, history, intermediate_layers,
          module_, hooks, pc, kind, epochsArg, epochs,
          epoch, cursor, batch_count, step, trace, lossArgs, step_accumulator,
          outcome, interrupted, prevKind>>

config == <<warm_start, closures, accumulator, data, module, module_layers>>

moduleVars == <<module_, hooks>>

\* self.layer_names: the declared layers, in order.
layer_names == <<"feat", "fc">>

\* self.max_epochs.
max_epochs == MaxEpochs

\* Batch sizes the iterators yield.  valid = <<>> with has_valid = FALSE is
\* dataset_valid = None.
Fixtures ==
    { [train |-> <<4, 4, 2>>, target |-> <<5, 5>>,    valid |-> <<2, 1>>, has_valid |-> TRUE],
      [train |-> <<4, 4, 2>>, target |-> <<4, 4, 2>>, valid |-> <<>>,     has_valid |-> FALSE],
      [train |-> <<4, 2, 4>>, target |-> <<4, 4, 2>>, valid |-> <<3>>,    has_valid |-> TRUE],
      [train |-> <<5, 5>>,    target |-> <<5, 5>>,    valid |-> <<>>,     has_valid |-> FALSE] }

Range(s) == { s[i] : i \in DOMAIN s }

\* A module that was just built carries no hook.
no_hooks == [l \in Range(layer_names) |-> 0]

\* The named layers a module may have: every declared layer, or "fc" missing.
ModuleLayers == { {"feat", "fc", "out"}, {"feat", "out"} }

Last(s) == s[Len(s)]

Ev(name, tr, b) == [ev |-> name, training |-> tr, batch |-> b]

----------------------------------------------------------------------------
\* History (skorch): a list of epoch rows, each with a list of batch rows.

new_epoch(h) == Append(h, [batches |-> <<>>, vals |-> <<>>])

\* Variant: the batch row of the previous batch is used again.
new_batch_reuse(h) ==
    [h EXCEPT ![Len(h)].batches = << <<>> >>]

new_batch(h) ==
    [h EXCEPT ![Len(h)].batches = Append(@, <<>>)]

record(h, name, value) ==
    [h EXCEPT ![Len(h)].vals = (name :> value) @@ @]

record_batch(h, name, value) ==
    [h EXCEPT ![Len(h)].batches =
        [@ EXCEPT ![Len(@)] = (name :> value) @@ @]]

\* self.notify(event): the event reaches the callbacks, and the estimator's own
\* on_epoch_begin / on_batch_begin handlers open a new history row.
notify_history(h, name) ==
    IF name = "on_epoch_begin" THEN new_epoch(h)
    ELSE IF name = "on_batch_begin" THEN new_batch(h)
    ELSE h

----------------------------------------------------------------------------
\* Forward passes and the train step.

\* Output of layer l in the forward pass over batch b of stream dom.
Act(l, dom, b) == <<l, dom, b>>

\* Layers of self.module_ carrying a capture hook.
hooked == { l \in DOMAIN hooks : hooks[l] > 0 }

\* self.infer(X): one forward pass.  Every hooked layer writes its output into
\* the activation map, replacing the previous value.
infer(il, dom, b) ==
    [il |-> [l \in (DOMAIN il) \cup hooked |->
                IF l \in hooked THEN Act(l, dom, b) ELSE il[l]],
     y  |-> <<"pred", dom, b>>]

\* A forward pass that raises after the first k declared layers have written
\* their output into the activation map (every declared layer is hooked).
infer_raises(il, dom, b, k) ==
    LET done == { layer_names[i] : i \in 1..k }
    IN  [l \in (DOMAIN il) \cup done |->
            IF l \in done THEN Act(l, dom, b) ELSE il[l]]

\* self._get_loss_da(...): the subclass' loss.  Closure evaluation j on source
\* batch b yields its own three loss tensors.
get_loss_da(b, j) ==
    [loss         |-> [term |-> "total",   batch |-> b, inv |-> j],
     loss_classif |-> [term |-> "classif", batch |-> b, inv |-> j],
     loss_da      |-> [term |-> "da",      batch |-> b, inv |-> j]]

\* Variant: the source embeddings are read after the target forward pass.
train_step_single_late_read(il, g, b, bt, j) ==
    LET src           == infer(il, "source", b)
        tgt           == infer(src.il, "target", bt)
        embedd        == [i \in 1..Len(layer_names) |-> tgt.il[layer_names[i]]]
        embedd_target == [i \in 1..Len(layer_names) |-> tgt.il[layer_names[i]]]
        l             == get_loss_da(b, j)
    IN  [il       |-> tgt.il,
         training |-> TRUE,
         grads    |-> g + 1,
         args     |-> [y_pred |-> src.y, embedd |-> embedd,
                       embedd_target |-> embedd_target,
                       X |-> <<"source", b>>, y_pred_target |-> tgt.y],
         step     |-> [loss |-> l.loss, loss_classif |-> l.loss_classif,
                       loss_da |-> l.loss_da, y_pred |-> src.y,
                       y_pred_target |-> tgt.y]]

\* train_step_single(batch, batch_target), as evaluation j of the closure.
\* batch is source batch b, batch_target is target batch bt.
train_step_single(il, g, b, bt, j) ==
    LET src           == infer(il, "source", b)
        embedd        == [i \in 1..Len(layer_names) |-> src.il[layer_names[i]]]
        tgt           == infer(src.il, "target", bt)
        embedd_target == [i \in 1..Len(layer_names) |-> tgt.il[layer_names[i]]]
        l             == get_loss_da(b, j)
    IN  [il       |-> tgt.il,
         training |-> TRUE,
         grads    |-> g + 1,
         args     |-> [y_pred |-> src.y, embedd |-> embedd,
                       embedd_target |-> embedd_target,
                       X |-> <<"source", b>>, y_pred_target |-> tgt.y],
         step     |-> [loss |-> l.loss, loss_classif |-> l.loss_classif,
                       loss_da |-> l.loss_da, y_pred |-> src.y,
                       y_pred_target |-> tgt.y]]

\* step_accumulator.store_step(step).  The accumulator comes from
\* get_train_step_accumulator(): it keeps the first step stored, or the latest.
store_step(acc, s) ==
    IF accumulator = "first" /\ acc # <<>> THEN acc ELSE <<s>>

\* The closure returns: the event carries the value returned.
Returns(b, value) ==
    [ev |-> "step_fn_returns", training |-> TRUE, batch |-> b, value |-> value]

\* Variant: the gradients are not cleared before train_step_single.
step_fn_accumulates(st, b, bt, j) ==
    LET s == train_step_single(st.il, st.grads, b, bt, j)
    IN  [st EXCEPT
            !.il       = s.il,
            !.training = s.training,
            !.grads    = s.grads,
            !.args     = <<s.args>>,
            !.acc      = store_step(st.acc, s.step),
            !.events   = @ \o << Ev("train_step_single", TRUE, b),
                                 Ev("store_step", TRUE, b),
                                 Ev("on_grad_computed", TRUE, b),
                                 Returns(b, s.step.loss) >>]

\* Variant: every evaluation of the closure updates the parameters.
step_fn_updates(st, b, bt, j) ==
    LET s == train_step_single(st.il, 0, b, bt, j)
    IN  [st EXCEPT
            !.il       = s.il,
            !.training = s.training,
            !.grads    = s.grads,
            !.params   = @ + 1,
            !.args     = <<s.args>>,
            !.acc      = store_step(st.acc, s.step),
            !.events   = @ \o << Ev("zero_grad", TRUE, b),
                                 Ev("train_step_single", TRUE, b),
                                 Ev("store_step", TRUE, b),
                                 Ev("on_grad_computed", TRUE, b),
                                 Returns(b, s.step.loss) >>]

\* The closure step_fn of train_step, evaluation j: _zero_grad_optimizer,
\* train_step_single, store_step, on_grad_computed, return step['loss'].
step_fn(st, b, bt, j) ==
    LET s == train_step_single(st.il, 0, b, bt, j)
    IN  [st EXCEPT
            !.il       = s.il,
            !.training = s.training,
            !.grads    = s.grads,
            !.args     = <<s.args>>,
            !.acc      = store_step(st.acc, s.step),
            !.events   = @ \o << Ev("zero_grad", TRUE, b),
                                 Ev("train_step_single", TRUE, b),
                                 Ev("store_step", TRUE, b),
                                 Ev("on_grad_computed", TRUE, b),
                                 Returns(b, s.step.loss) >>]

\* self._step_optimizer(step_fn): the optimizer evaluates the closure
\* `closures` times (evaluations j..n below), then updates the parameters.
RECURSIVE eval_closures(_, _, _, _, _)
eval_closures(st, b, bt, j, n) ==
    IF j > n THEN st
    ELSE eval_closures(step_fn(st, b, bt, j), b, bt, j + 1, n)

step_optimizer(st, b, bt) ==
    LET done == eval_closures(st, b, bt, 1, closures)
    IN  [done EXCEPT !.params = @ + 1,
                     !.events = Append(@, Ev("optimizer_update", TRUE, b))]

\* Variant: the step of a first evaluation is returned, not the accumulator's.
train_step_returns_first(il, g, p, b, bt) ==
    LET st0 == [il |-> il, training |-> TRUE, grads |-> g, params |-> p,
                args |-> <<>>, acc |-> <<>>,
                events |-> << Ev("train_step", TRUE, b) >>]
        st1 == step_optimizer(st0, b, bt)
    IN   st1 @@ [ret |-> <<train_step_single(il, 0, b, bt, 1).step>>]

\* train_step on entry: a new, empty accumulator.
train_step_entry(il, g, p, b) ==
    [il |-> il, training |-> TRUE, grads |-> g, params |-> p,
     args |-> <<>>, acc |-> <<>>,
     events |-> << Ev("train_step", TRUE, b) >>]

\* train_step(batch, batch_target): returns step_accumulator.get_step().
train_step(il, g, p, b, bt) ==
    LET st1 == step_optimizer(train_step_entry(il, g, p, b), b, bt)
    IN  st1 @@ [ret |-> st1.acc]

\* validation_step(batch): forward pass in eval mode and loss; no backward
\* pass, no optimizer.
validation_step(il, b) ==
    LET fwd == infer(il, "valid", b)
    IN  [il       |-> fwd.il,
         training |-> FALSE,
         step     |-> [loss |-> [term |-> "valid", batch |-> b, inv |-> 0],
                       y_pred |-> fwd.y]]

----------------------------------------------------------------------------
\* The estimators explored.  With one closure evaluation per step the two
\* accumulators agree, so one is kept; a module passed as an instance is
\* explored with one closure evaluation per step.
Init ==
    /\ warm_start \in BOOLEAN
    /\ closures \in 1..MaxClosure
    /\ accumulator \in {"first", "last"}
    /\ closures = 1 => accumulator = "first"
    /\ data \in Fixtures
    /\ module \in {"class", "instance"}
    /\ module = "instance" => closures = 1
    /\ module_layers \in ModuleLayers
    /\ initialized_ = FALSE
    /\ params = 0
    /\ grads = 0
    /\ training = TRUE
    /\ history = <<>>
    /\ intermediate_layers = <<>>
    /\ module_ = "none"
    /\ hooks = no_hooks
    /\ pc = "idle"
    /\ kind = "none"
    /\ epochsArg = <<>>
    /\ epochs = 0
    /\ epoch = 0
    /\ cursor = 1
    /\ batch_count = 0
    /\ step = <<>>
    /\ trace = <<>>
    /\ lossArgs = <<>>
    /\ step_accumulator = <<>>
    /\ outcome = "none"
    /\ interrupted = FALSE
    /\ prevKind = "none"

----------------------------------------------------------------------------
\* Entering a call.

\* The epochs the call will run: fit_loop's `epochs if epochs is not None
\* else self.max_epochs`.
resolve_epochs(arg) == IF arg # <<>> THEN arg[1] ELSE max_epochs

\* fit: `if not self.warm_start or not self.initialized_`.
fit_initializes == ~warm_start \/ ~initialized_

\* Variant: partial_fit initializes unconditionally.
partial_fit_always_initializes == TRUE

\* partial_fit: `if not self.initialized_`.
partial_fit_initializes == ~initialized_

\* Variant: a declared layer the module does not have is passed over.
register_forwards_hook_ignores == FALSE

\* _register_forwards_hook(self.module_, self.intermediate_layers,
\* self.layer_names) raises: a declared layer is not a layer of the module.
register_forwards_hook_raises == ~(Range(layer_names) \subseteq module_layers)

\* _register_forwards_hook on a module whose declared layers carry h hooks:
\* one more hook on every declared layer of the module.
register_forwards_hook(h) ==
    [l \in Range(layer_names) |-> IF l \in module_layers THEN h[l] + 1 ELSE h[l]]

\* self.initialized_instance(self.module, kwargs) keeps a module instance
\* (there are no module parameters to apply) and instantiates a module class.
initialized_instance == IF module = "instance" THEN "given" ELSE "built"

\* initialize_module: self.module_ is set, and every declared layer of it
\* gets one more capture hook.
initialize_module ==
    /\ module_' = initialized_instance
    /\ hooks' = register_forwards_hook(
                    IF initialized_instance = "given" THEN hooks ELSE no_hooks)

\* self.initialize(): the module (a new one starts with new parameters, one
\* that is kept keeps its parameters, gradients and mode), a new optimizer
\* and a new history.
initialize ==
    /\ initialize_module
    /\ initialized_' = TRUE
    /\ params' = IF initialized_instance = "given" THEN params ELSE 0
    /\ grads' = IF initialized_instance = "given" THEN grads ELSE 0
    /\ training' = IF initialized_instance = "given" THEN training ELSE TRUE
    /\ history' = <<>>

no_initialize ==
    UNCHANGED <<initialized_, params, grads, training, history, moduleVars>>

\* initialize() may run: registration will not raise, and a module instance
\* has been initialized fewer than MaxInitialize times.
may_initialize ==
    /\ ~register_forwards_hook_raises
    /\ module = "instance" => \A l \in DOMAIN hooks : hooks[l] < MaxInitialize

\* The caller does not use an estimator again after a call on it ended with
\* an exception.
usable == outcome # "raised"

\* A call starts with the observation of the previous call cleared.
enter(k, arg) ==
    /\ kind' = k
    /\ epochsArg' = arg
    /\ lossArgs' = <<>>
    /\ step_accumulator' = <<>>
    /\ outcome' = "running"
    /\ interrupted' = FALSE
    /\ prevKind' = kind
    /\ step' = <<>>
    /\ epochs' = 0
    /\ epoch' = 0
    /\ cursor' = 1
    /\ batch_count' = 0

\* The caller invokes fit(X, y, X_target, epochs=arg).
fit ==
    /\ pc = "idle"
    /\ usable
    /\ \E arg \in {<<>>} \cup { <<n>> : n \in 0..(MaxEpochs - 1) } :
        /\ (IF fit_initializes THEN 0 ELSE Len(history)) + resolve_epochs(arg)
              <= MaxEpochs
        /\ enter("fit", arg)
    /\ fit_initializes => may_initialize
    /\ IF fit_initializes
          THEN initialize /\ trace' = << Ev("initialize", FALSE, 0) >>
          ELSE no_initialize /\ trace' = <<>>
    /\ pc' = "partial_fit"
    /\ UNCHANGED <<config, intermediate_layers>>

\* partial_fit up to the try block: initialize if need be, on_train_begin.
partial_fit_body(tr) ==
    /\ partial_fit_initializes => may_initialize
    /\ IF partial_fit_initializes
          THEN initialize /\ trace' = tr \o << Ev("initialize", FALSE, 0),
                                               Ev("on_train_begin", FALSE, 0) >>
          ELSE no_initialize /\ trace' = Append(tr, Ev("on_train_begin", FALSE, 0))
    /\ pc' = "fit_loop"
    /\ UNCHANGED <<config, intermediate_layers>>

\* partial_fit, invoked by the caller or by fit.
partial_fit ==
    \/ /\ pc = "idle"
       /\ usable
       /\ \E arg \in {<<>>} \cup { <<n>> : n \in 0..(MaxEpochs - 1) } :
            /\ (IF partial_fit_initializes THEN 0 ELSE Len(history))
                  + resolve_epochs(arg) <= MaxEpochs
            /\ enter("partial_fit", arg)
       /\ partial_fit_body(<<>>)
    \/ /\ pc = "partial_fit"
       /\ partial_fit_body(trace)
       /\ UNCHANGED <<kind, epochsArg, prevKind, lossArgs, step_accumulator,
                      outcome, interrupted, step, epochs, epoch, cursor, batch_count>>

\* fit or partial_fit on an estimator that initializes, with a declared layer
\* the module does not have: initialize_module has set self.module_ when the
\* registration raises (with h hooks on the declared layers the module has),
\* and the call ends with that exception before initialized_ is set.
initialize_raises ==
    /\ pc = "idle"
    /\ usable
    /\ register_forwards_hook_raises
    /\ \E k \in {"fit", "partial_fit"},
          arg \in {<<>>} \cup { <<n>> : n \in 0..(MaxEpochs - 1) } :
        /\ IF k = "fit" THEN fit_initializes ELSE partial_fit_initializes
        /\ kind' = k
        /\ epochsArg' = arg
    /\ prevKind' = kind
    /\ module_' = initialized_instance
    /\ \E h \in 0..1 :
        hooks' = [l \in Range(layer_names) |->
                    IF l \in module_layers THEN h ELSE 0]
    /\ trace' = << Ev("initialize", FALSE, 0),
                   Ev("register_forwards_hook_raises", FALSE, 0) >>
    /\ outcome' = "raised"
    /\ interrupted' = FALSE
    /\ lossArgs' = <<>>
    /\ step_accumulator' = <<>>
    /\ step' = <<>>
    /\ UNCHANGED <<config, initialized_, params, grads, training, history,
                   intermediate_layers, pc, epochs, epoch, cursor, batch_count>>

----------------------------------------------------------------------------
\* fit_loop and run_single_epoch.

callVars == <<kind, epochsArg, prevKind>>

notify(name, tr, b) ==
    /\ trace' = Append(trace, Ev(name, tr, b))
    /\ history' = notify_history(history, name)

\* Variant: one target cursor advances together with the source cursor.
batch_target_rolling == IF cursor <= Len(data.target) THEN cursor ELSE 1

\* `next(iter(iterator_target))`: a fresh iteration over the target iterator
\* for every source batch, hence always its first batch.
batch_target == 1

\* Variant: only a smaller source batch ends the pass.
sizes_differ_smaller(c) == data.train[c] < data.target[batch_target]

\* Variant: the size check is missing.
sizes_differ_never(c) == FALSE

\* `len(batch[0]) != len(batch_target[0])` for the source batch at position c.
sizes_differ(c) == data.train[c] # data.target[batch_target]

\* fit_loop before the loop: check_data, epochs, datasets and iterators.
fit_loop ==
    /\ pc = "fit_loop"
    /\ epochs' = resolve_epochs(epochsArg)
    /\ epoch' = 0
    /\ pc' = "epoch"
    /\ UNCHANGED <<config, callVars, moduleVars, initialized_, params, grads, training,
                   history, intermediate_layers, cursor, batch_count, step,
                   trace, lossArgs, step_accumulator, outcome, interrupted>>

\* `for _ in range(epochs)`: on_epoch_begin, and the training pass starts.
epoch_begin ==
    /\ pc = "epoch"
    /\ epoch < epochs
    /\ notify("on_epoch_begin", FALSE, 0)
    /\ batch_count' = 0
    /\ cursor' = 1
    /\ pc' = "train_iter"
    /\ UNCHANGED <<config, callVars, moduleVars, initialized_, params, grads, training,
                   intermediate_layers, epochs, epoch, step, lossArgs,
                   step_accumulator, outcome, interrupted>>

\* Training pass, `for batch in iterator` with a batch whose size matches the
\* target batch: on_batch_begin.
train_batch_begin ==
    /\ pc = "train_iter"
    /\ cursor <= Len(data.train)
    /\ ~sizes_differ(cursor)
    /\ notify("on_batch_begin", TRUE, cursor)
    /\ pc' = "train_step"
    /\ UNCHANGED <<config, callVars, moduleVars, initialized_, params, grads, training,
                   intermediate_layers, epochs, epoch, cursor, batch_count,
                   step, lossArgs, step_accumulator, outcome, interrupted>>

\* step = step_fn(batch, batch_target) with step_fn = self.train_step.
train_batch_step ==
    /\ pc = "train_step"
    /\ LET r == train_step(intermediate_layers, grads, params, cursor, batch_target)
       IN  /\ intermediate_layers' = r.il
           /\ grads' = r.grads
           /\ params' = r.params
           /\ training' = r.training
           /\ lossArgs' = r.args
           /\ step_accumulator' = r.acc
           /\ step' = r.ret
           /\ trace' = trace \o r.events
    /\ pc' = "train_record"
    /\ UNCHANGED <<config, callVars, moduleVars, initialized_, history, epochs, epoch,
                   cursor, batch_count, outcome, interrupted>>

\* Variant: on_batch_end is not notified for training batches.
train_batch_end_silent ==
    /\ pc = "train_record"
    /\ LET h1 == record_batch(history, "train_loss", step[1].loss)
           h2 == record_batch(h1, "train_loss_classif", step[1].loss_classif)
           h3 == record_batch(h2, "train_loss_da", step[1].loss_da)
           h4 == record_batch(h3, "train_batch_size", data.train[cursor])
       IN  history' = h4
    /\ batch_count' = batch_count + 1
    /\ cursor' = cursor + 1
    /\ pc' = "train_iter"
    /\ UNCHANGED <<config, callVars, moduleVars, initialized_, params, grads, training,
                   intermediate_layers, epochs, epoch, step, trace, lossArgs,
                   step_accumulator, outcome, interrupted>>

\* Variant: batch_count is not incremented.
train_batch_end_uncounted ==
    /\ pc = "train_record"
    /\ LET h1 == record_batch(history, "train_loss", step[1].loss)
           h2 == record_batch(h1, "train_loss_classif", step[1].loss_classif)
           h3 == record_batch(h2, "train_loss_da", step[1].loss_da)
           h4 == record_batch(h3, "train_batch_size", data.train[cursor])
       IN  history' = h4
    /\ trace' = Append(trace, Ev("on_batch_end", TRUE, cursor))
    /\ cursor' = cursor + 1
    /\ pc' = "train_iter"
    /\ UNCHANGED <<config, callVars, moduleVars, initialized_, params, grads,
                   training, intermediate_layers, epochs, epoch, step, lossArgs,
                   step_accumulator, outcome, interrupted, batch_count>>

\* The four record_batch calls, on_batch_end, batch_count += 1.
train_batch_end ==
    /\ pc = "train_record"
    /\ LET h1 == record_batch(history, "train_loss", step[1].loss)
           h2 == record_batch(h1, "train_loss_classif", step[1].loss_classif)
           h3 == record_batch(h2, "train_loss_da", step[1].loss_da)
           h4 == record_batch(h3, "train_batch_size", data.train[cursor])
       IN  history' = h4
    /\ trace' = Append(trace, Ev("on_batch_end", TRUE, cursor))
    /\ batch_count' = batch_count + 1
    /\ cursor' = cursor + 1
    /\ pc' = "train_iter"
    /\ UNCHANGED <<config, callVars, moduleVars, initialized_, params, grads, training,
                   intermediate_layers, epochs, epoch, step, lossArgs,
                   step_accumulator, outcome, interrupted>>

\* Variant: `return` instead of `break` on a size mismatch.
train_pass_end_returns ==
    /\ pc = "train_iter"
    /\ \/ /\ cursor > Len(data.train)
          /\ history' = record(history, "train_batch_count", batch_count)
          /\ trace' = Append(trace, Ev("record_train_batch_count", TRUE, batch_count))
       \/ /\ cursor <= Len(data.train)
          /\ sizes_differ(cursor)
          /\ UNCHANGED <<history, trace>>
    /\ IF data.has_valid
          THEN pc' = "valid_iter" /\ batch_count' = 0 /\ cursor' = 1
          ELSE pc' = "epoch_end" /\ UNCHANGED <<batch_count, cursor>>
    /\ UNCHANGED <<config, callVars, moduleVars, initialized_, params, grads, training,
                   intermediate_layers, epochs, epoch, step, lossArgs,
                   step_accumulator, outcome, interrupted>>

\* Variant: the validation pass does not return early without an iterator.
train_pass_end_always_valid ==
    /\ pc = "train_iter"
    /\ \/ cursor > Len(data.train)
       \/ /\ cursor <= Len(data.train)
          /\ sizes_differ(cursor)
    /\ history' = record(history, "train_batch_count", batch_count)
    /\ trace' = Append(trace, Ev("record_train_batch_count", TRUE, batch_count))
    /\ pc' = "valid_iter"
    /\ batch_count' = 0
    /\ cursor' = 1
    /\ UNCHANGED <<config, callVars, moduleVars, initialized_, params, grads, training,
                   intermediate_layers, epochs, epoch, step, lossArgs,
                   step_accumulator, outcome, interrupted>>

\* Variant: `continue` instead of `break` on a size mismatch.
train_pass_end_continue ==
    /\ pc = "train_iter"
    /\ \/ /\ cursor > Len(data.train)
          /\ history' = record(history, "train_batch_count", batch_count)
          /\ trace' = Append(trace, Ev("record_train_batch_count", TRUE, batch_count))
          /\ IF data.has_valid
                THEN pc' = "valid_iter" /\ batch_count' = 0 /\ cursor' = 1
                ELSE pc' = "epoch_end" /\ UNCHANGED <<batch_count, cursor>>
       \/ /\ cursor <= Len(data.train)
          /\ sizes_differ(cursor)
          /\ cursor' = cursor + 1
          /\ UNCHANGED <<pc, history, trace, batch_count>>
    /\ UNCHANGED <<config, callVars, moduleVars, initialized_, params, grads, training,
                   intermediate_layers, epochs, epoch, step, lossArgs,
                   step_accumulator, outcome, interrupted>>

\* The training pass ends, by exhaustion or by `break` on a size mismatch:
\* train_batch_count is recorded.  Then run_single_epoch(iterator_valid, ...)
\* returns at once when iterator_valid is None.
train_pass_end ==
    /\ pc = "train_iter"
    /\ \/ cursor > Len(data.train)
       \/ /\ cursor <= Len(data.train)
          /\ sizes_differ(cursor)
    /\ history' = record(history, "train_batch_count", batch_count)
    /\ trace' = Append(trace, Ev("record_train_batch_count", TRUE, batch_count))
    /\ IF data.has_valid
          THEN /\ pc' = "valid_iter"
               /\ batch_count' = 0
               /\ cursor' = 1
          ELSE /\ pc' = "epoch_end"
               /\ UNCHANGED <<batch_count, cursor>>
    /\ UNCHANGED <<config, callVars, moduleVars, initialized_, params, grads, training,
                   intermediate_layers, epochs, epoch, step, lossArgs,
                   step_accumulator, outcome, interrupted>>

\* Validation pass, `for batch in iterator`: on_batch_begin.
valid_batch_begin ==
    /\ pc = "valid_iter"
    /\ cursor <= Len(data.valid)
    /\ notify("on_batch_begin", FALSE, cursor)
    /\ pc' = "valid_step"
    /\ UNCHANGED <<config, callVars, moduleVars, initialized_, params, grads, training,
                   intermediate_layers, epochs, epoch, cursor, batch_count,
                   step, lossArgs, step_accumulator, outcome, interrupted>>

\* step_fn = self.validation_step, the two record_batch calls, on_batch_end.
valid_batch_step ==
    /\ pc = "valid_step"
    /\ LET r == validation_step(intermediate_layers, cursor)
           h1 == record_batch(history, "valid_loss", r.step.loss)
           h2 == record_batch(h1, "valid_batch_size", data.valid[cursor])
       IN  /\ intermediate_layers' = r.il
           /\ training' = r.training
           /\ step' = <<r.step>>
           /\ history' = h2
    /\ trace' = trace \o << Ev("validation_step", FALSE, cursor),
                            Ev("on_batch_end", FALSE, cursor) >>
    /\ batch_count' = batch_count + 1
    /\ cursor' = cursor + 1
    /\ pc' = "valid_iter"
    /\ UNCHANGED <<config, callVars, moduleVars, initialized_, params, grads, epochs,
                   epoch, lossArgs, step_accumulator, outcome, interrupted>>

\* The validation pass ends: valid_batch_count is recorded.
valid_pass_end ==
    /\ pc = "valid_iter"
    /\ cursor > Len(data.valid)
    /\ history' = record(history, "valid_batch_count", batch_count)
    /\ trace' = Append(trace, Ev("record_valid_batch_count", FALSE, batch_count))
    /\ pc' = "epoch_end"
    /\ UNCHANGED <<config, callVars, moduleVars, initialized_, params, grads, training,
                   intermediate_layers, epochs, epoch, cursor, batch_count,
                   step, lossArgs, step_accumulator, outcome, interrupted>>

\* on_epoch_end closes the iteration of the epoch loop.
epoch_end ==
    /\ pc = "epoch_end"
    /\ notify("on_epoch_end", FALSE, 0)
    /\ epoch' = epoch + 1
    /\ pc' = "epoch"
    /\ UNCHANGED <<config, callVars, moduleVars, initialized_, params, grads, training,
                   intermediate_layers, epochs, cursor, batch_count, step,
                   lossArgs, step_accumulator, outcome, interrupted>>

\* fit_loop returns; partial_fit notifies on_train_end and returns self.
fit_loop_return ==
    /\ pc = "epoch"
    /\ epoch >= epochs
    /\ notify("on_train_end", FALSE, 0)
    /\ outcome' = "returned"
    /\ pc' = "idle"
    /\ UNCHANGED <<config, callVars, moduleVars, initialized_, params, grads, training,
                   intermediate_layers, epochs, epoch, cursor, batch_count,
                   step, lossArgs, step_accumulator, interrupted>>

\* Positions inside partial_fit's `try: self.fit_loop(...)`.
InFitLoop ==
    pc \in {"fit_loop", "epoch", "train_iter", "train_step", "train_record",
            "valid_iter", "valid_step", "epoch_end"}

\* Variant: the KeyboardInterrupt is not caught.
interrupt_propagates ==
    /\ InFitLoop
    /\ interrupted' = TRUE
    /\ outcome' = "raised"
    /\ pc' = "idle"
    /\ UNCHANGED <<config, callVars, moduleVars, initialized_, params, grads, training,
                   history, intermediate_layers, epochs, epoch, cursor,
                   batch_count, step, trace, lossArgs, step_accumulator>>

\* A KeyboardInterrupt inside fit_loop: `except KeyboardInterrupt: pass`, then
\* on_train_end and the normal return.
interrupt ==
    /\ InFitLoop
    /\ notify("on_train_end", FALSE, 0)
    /\ interrupted' = TRUE
    /\ outcome' = "returned"
    /\ pc' = "idle"
    /\ UNCHANGED <<config, callVars, moduleVars, initialized_, params, grads, training,
                   intermediate_layers, epochs, epoch, cursor, batch_count,
                   step, lossArgs, step_accumulator>>

\* A KeyboardInterrupt inside train_step, after n evaluations of the closure
\* and before the optimizer updates the parameters: handled as above.
interrupt_in_train_step ==
    /\ pc = "train_step"
    /\ \E n \in 1..closures :
        LET st == eval_closures(
                      train_step_entry(intermediate_layers, grads, params, cursor),
                      cursor, batch_target, 1, n)
        IN  /\ intermediate_layers' = st.il
            /\ grads' = st.grads
            /\ params' = st.params
            /\ training' = st.training
            /\ lossArgs' = st.args
            /\ step_accumulator' = st.acc
            /\ trace' = Append(trace \o st.events, Ev("on_train_end", FALSE, 0))
    /\ interrupted' = TRUE
    /\ outcome' = "returned"
    /\ pc' = "idle"
    /\ UNCHANGED <<config, callVars, moduleVars, initialized_, history, epochs,
                   epoch, cursor, batch_count, step>>

\* Where an evaluation of the closure may raise an error that is not a
\* KeyboardInterrupt, and the event that marks it in the trace.
ErrorPoints == {"forward_source", "forward_target", "loss", "backward"}

ErrorEvent(point) ==
    CASE point = "forward_source" -> "forward_source_raises"
      [] point = "forward_target" -> "forward_target_raises"
      [] point = "loss"           -> "loss_raises"
      [] point = "backward"       -> "backward_raises"

\* The state evaluation n of the closure leaves behind when it raises at the
\* given point: a forward pass that raises has written the first k declared
\* layers (not all of them), a loss or a backward pass that raises follows two
\* whole forward passes, a backward pass that raises has accumulated gradients
\* or not (g).
raising_evaluation(n, point, k, g) ==
    LET st  == eval_closures(
                   train_step_entry(intermediate_layers, grads, params, cursor),
                   cursor, batch_target, 1, n - 1)
        src == infer(st.il, "source", cursor)
        s   == train_step_single(st.il, 0, cursor, batch_target, n)
    IN  [il     |-> IF point = "forward_source"
                        THEN infer_raises(st.il, "source", cursor, k)
                    ELSE IF point = "forward_target"
                        THEN infer_raises(src.il, "target", batch_target, k)
                    ELSE s.il,
         args   |-> IF point \in {"loss", "backward"} THEN <<s.args>> ELSE st.args,
         grads  |-> g,
         params |-> st.params,
         acc    |-> st.acc,
         events |-> st.events \o << Ev("zero_grad", TRUE, cursor),
                                    Ev("train_step_single", TRUE, cursor),
                                    Ev(ErrorEvent(point), TRUE, cursor) >>]

\* Variant: partial_fit catches every exception of the fit loop.
train_step_raises_caught ==
    /\ pc = "train_step"
    /\ \E n \in 1..closures, point \in ErrorPoints,
          k \in 0..Len(layer_names), g \in 0..1 :
        /\ k = Len(layer_names) <=> point \in {"loss", "backward"}
        /\ point # "backward" => g = 0
        /\ LET r == raising_evaluation(n, point, k, g)
           IN  /\ intermediate_layers' = r.il
               /\ lossArgs' = r.args
               /\ grads' = r.grads
               /\ params' = r.params
               /\ step_accumulator' = r.acc
               /\ trace' = Append(trace \o r.events, Ev("on_train_end", FALSE, 0))
    /\ training' = TRUE
    /\ outcome' = "returned"
    /\ pc' = "idle"
    /\ UNCHANGED <<config, callVars, moduleVars, initialized_, history, epochs,
                   epoch, cursor, batch_count, step, interrupted>>

\* An error that is not a KeyboardInterrupt is raised inside train_step_single
\* (a forward pass, the loss contract or the backward pass) in evaluation n of
\* the closure: `except KeyboardInterrupt` does not catch it, the call ends
\* with the exception.
train_step_raises ==
    /\ pc = "train_step"
    /\ \E n \in 1..closures, point \in ErrorPoints,
          k \in 0..Len(layer_names), g \in 0..1 :
        /\ k = Len(layer_names) <=> point \in {"loss", "backward"}
        /\ point # "backward" => g = 0
        /\ LET r == raising_evaluation(n, point, k, g)
           IN  /\ intermediate_layers' = r.il
               /\ lossArgs' = r.args
               /\ grads' = r.grads
               /\ params' = r.params
               /\ step_accumulator' = r.acc
               /\ trace' = trace \o r.events
    /\ training' = TRUE
    /\ outcome' = "raised"
    /\ pc' = "idle"
    /\ UNCHANGED <<config, callVars, moduleVars, initialized_, history, epochs,
                   epoch, cursor, batch_count, step, interrupted>>

\* The forward pass of validation_step raises: the call ends with the
\* exception.
valid_step_raises ==
    /\ pc = "valid_step"
    /\ \E k \in 0..(Len(layer_names) - 1) :
        intermediate_layers' = infer_raises(intermediate_layers, "valid", cursor, k)
    /\ training' = FALSE
    /\ trace' = trace \o << Ev("validation_step", FALSE, cursor),
                            Ev("validation_forward_raises", FALSE, cursor) >>
    /\ outcome' = "raised"
    /\ pc' = "idle"
    /\ UNCHANGED <<config, callVars, moduleVars, initialized_, params, grads, history,
                   epochs, epoch, cursor, batch_count, step, lossArgs,
                   step_accumulator, interrupted>>

Next ==
    \/ fit
    \/ partial_fit
    \/ initialize_raises
    \/ fit_loop
    \/ epoch_begin
    \/ train_batch_begin
    \/ train_batch_step
    \/ train_batch_end
    \/ train_pass_end
    \/ valid_batch_begin
    \/ valid_batch_step
    \/ valid_pass_end
    \/ epoch_end
    \/ fit_loop_return
    \/ interrupt
    \/ interrupt_in_train_step
    \/ train_step_raises
    \/ valid_step_raises

Spec == Init /\ [][Next]_vars

----------------------------------------------------------------------------
\* The training pass over arbitrary batch sizes: a source iterator of up to
\* MaxBatches batches and a target iterator of one or two batches, each batch
\* of one of two sizes; no validation data, no interrupt and no error.

BatchSizes == {4, 5}

SeqsUpTo(S, n) == UNION { [1..m -> S] : m \in 0..n }

PassData ==
    { [train |-> s, target |-> t, valid |-> <<>>, has_valid |-> FALSE] :
        s \in SeqsUpTo(BatchSizes, MaxBatches),
        t \in SeqsUpTo(BatchSizes, 2) \ {<<>>} }

PassInit ==
    /\ warm_start = FALSE
    /\ closures = 1
    /\ accumulator = "first"
    /\ data \in PassData
    /\ module = "class"
    /\ module_layers = {"feat", "fc", "out"}
    /\ initialized_ = FALSE
    /\ params = 0
    /\ grads = 0
    /\ training = TRUE
    /\ history = <<>>
    /\ intermediate_layers = <<>>
    /\ module_ = "none"
    /\ hooks = no_hooks
    /\ pc = "idle"
    /\ kind = "none"
    /\ epochsArg = <<>>
    /\ epochs = 0
    /\ epoch = 0
    /\ cursor = 1
    /\ batch_count = 0
    /\ step = <<>>
    /\ trace = <<>>
    /\ lossArgs = <<>>
    /\ step_accumulator = <<>>
    /\ outcome = "none"
    /\ interrupted = FALSE
    /\ prevKind = "none"

PassNext ==
    \/ fit
    \/ partial_fit
    \/ fit_loop
    \/ epoch_begin
    \/ train_batch_begin
    \/ train_batch_step
    \/ train_batch_end
    \/ train_pass_end
    \/ epoch_end
    \/ fit_loop_return

PassSpec == PassInit /\ [][PassNext]_vars


----------------------------------------------------------------------------
\* Reading the trace and the history.

Count(name) == Cardinality({ i \in DOMAIN trace : trace[i].ev = name })

\* Events of a training batch (the batch field is the source batch position).
TrainBatchEvents ==
    {"on_batch_begin", "train_step", "zero_grad", "train_step_single",
     "store_step", "on_grad_computed", "optimizer_update", "on_batch_end"}

TrainEventAt(k) == trace[k].training /\ trace[k].ev \in TrainBatchEvents

Rows == { history[i] : i \in DOMAIN history }

\* Batch rows of epoch row r that hold the given key.
BatchEntries(r, key) ==
    Cardinality({ i \in DOMAIN r.batches : key \in DOMAIN r.batches[i] })

PassRecorded(r) == "train_batch_count" \in DOMAIN r.vals

\* The source batch at position i and the target batch drawn for it differ in
\* size.
PairMismatch(i) == data.train[i] # data.target[batch_target]

Mismatches == { i \in DOMAIN data.train : PairMismatch(i) }

FirstMismatch == CHOOSE i \in Mismatches : \A j \in Mismatches : i <= j

----------------------------------------------------------------------------
\* C1: a KeyboardInterrupt raised inside the fit loop of a fit or partial_fit
\* call never reaches the caller: the call returns normally, and on_train_end
\* has been notified exactly once in that call.
C1_InterruptContained ==
    interrupted =>
        /\ pc = "idle"
        /\ outcome = "returned"
        /\ Count("on_train_end") = 1
        /\ Last(trace).ev = "on_train_end"

\* An interrupt arrived between on_batch_begin and on_batch_end of a training
\* batch.
C1_Witness ==
    /\ interrupted
    /\ Count("on_batch_begin") > Count("on_batch_end")
    /\ Count("on_epoch_begin") > Count("on_epoch_end")

\* C2: once a source batch and its target batch differ in size, the training
\* pass of that epoch processes no further batch (no batch notification, no
\* train step, no history batch entry at or after the mismatch), and the
\* train_batch_count recorded is the number of batches before the mismatch.
C2_MismatchEndsPass ==
    Mismatches # {} =>
        /\ \A k \in DOMAIN trace : TrainEventAt(k) => trace[k].batch < FirstMismatch
        /\ \A r \in Rows :
            /\ BatchEntries(r, "train_loss") < FirstMismatch
            /\ BatchEntries(r, "train_batch_size") < FirstMismatch
            /\ PassRecorded(r) =>
                  /\ r.vals["train_batch_count"] = FirstMismatch - 1
                  /\ r.vals["train_batch_count"] = BatchEntries(r, "train_loss")

\* A pass that processed a batch, met a mismatch with source batches left
\* behind it, and recorded its count.
C2_Witness ==
    /\ Mismatches # {}
    /\ 1 < FirstMismatch
    /\ FirstMismatch < Len(data.train)
    /\ pc = "epoch_end"
    /\ PassRecorded(Last(history))
    /\ Last(history).vals["train_batch_count"] = 1

\* C3 as stated: with source batches 4,4,2 and target batches 5,5 a training
\* pass processes exactly 1 batch and records train_batch_count = 1.
IsC3 == data.train = <<4, 4, 2>> /\ data.target = <<5, 5>>

C3_AsStated ==
    IsC3 => \A r \in Rows :
                PassRecorded(r) =>
                    /\ r.vals["train_batch_count"] = 1
                    /\ BatchEntries(r, "train_loss") = 1

\* C3 (amended): with source batches 4,4,2 and target batches 5,5 a training
\* pass processes no batch at all (the first pairing already differs in size)
\* and records train_batch_count = 0.
C3_NoBatchProcessed ==
    IsC3 =>
        /\ \A k \in DOMAIN trace : ~TrainEventAt(k)
        /\ \A r \in Rows :
            /\ BatchEntries(r, "train_loss") = 0
            /\ PassRecorded(r) => r.vals["train_batch_count"] = 0

C3_Witness ==
    /\ IsC3
    /\ pc = "valid_iter"
    /\ PassRecorded(Last(history))
    /\ Count("record_train_batch_count") = 1

\* C4 as stated: with source batches 4,4,2 and target batches 4,4,2 a training
\* pass records train_batch_count = 3 and 3 train_loss batch entries.
IsC4 == data.train = <<4, 4, 2>> /\ data.target = <<4, 4, 2>>

C4_AsStated ==
    IsC4 => \A r \in Rows :
                PassRecorded(r) =>
                    /\ r.vals["train_batch_count"] = 3
                    /\ BatchEntries(r, "train_loss") = 3

\* C4 (amended): with source batches 4,4,2 and target batches 4,4,2 a training
\* pass records train_batch_count = 2: the third source batch (size 2) is
\* paired with the first target batch (size 4) again.  The epoch holds exactly
\* 2 train_loss batch entries, and train_batch_count is recorded exactly once
\* per epoch.
C4_TwoBatchesProcessed ==
    IsC4 =>
        /\ \A r \in Rows :
            /\ BatchEntries(r, "train_loss") <= 2
            /\ PassRecorded(r) =>
                  /\ r.vals["train_batch_count"] = 2
                  /\ BatchEntries(r, "train_loss") = 2
        /\ Count("record_train_batch_count") <= Count("on_epoch_begin")
        /\ Count("on_epoch_end") <= Count("record_train_batch_count")

C4_Witness ==
    /\ IsC4
    /\ pc = "epoch_end"
    /\ PassRecorded(Last(history))
    /\ Count("record_train_batch_count") = 1

----------------------------------------------------------------------------
CountIn(tr, name) == Cardinality({ i \in DOMAIN tr : tr[i].ev = name })

\* What one step may do about initialization: the first step of partial_fit,
\* the first step of fit, partial_fit entered from fit, any step.
C5_Step ==
    /\ (pc = "idle" /\ pc' = "fit_loop") =>
          /\ CountIn(trace', "initialize") = (IF initialized_ THEN 0 ELSE 1)
          /\ initialized_ => (params' = params /\ history' = history)
    /\ (pc = "idle" /\ pc' = "partial_fit") =>
          /\ CountIn(trace', "initialize")
                = (IF warm_start /\ initialized_ THEN 0 ELSE 1)
          /\ IF warm_start /\ initialized_
                THEN params' = params /\ history' = history
                ELSE /\ history' = <<>>
                     /\ params' = (IF module = "class" THEN 0 ELSE params)
    /\ (pc = "partial_fit" /\ pc' = "fit_loop") =>
          /\ CountIn(trace', "initialize") = CountIn(trace, "initialize")
          /\ params' = params
    /\ CountIn(trace', "initialize") <= 1
    /\ pc' # "idle" => initialized_'

\* C5: over any sequence of fit and partial_fit calls, partial_fit initializes
\* only an estimator that is not initialized yet (otherwise the learned
\* parameters and the history are kept), fit initializes unless warm_start is
\* set and the estimator is initialized, and no call initializes twice.
C5_InitializeOnlyWhenNeeded == [][C5_Step]_vars

\* The second of two consecutive partial_fit calls has entered its fit loop
\* with the parameters the first one learned.
C5_Witness ==
    /\ prevKind = "partial_fit"
    /\ kind = "partial_fit"
    /\ pc = "fit_loop"
    /\ params > 0
    /\ Count("initialize") = 0

\* C6: the loss contract receives, for every declared layer, the activation
\* of the source forward pass as source embedding and the activation of the
\* target forward pass as target embedding, and after the train step the
\* activation map holds the target activation of every declared layer.
C6_EmbeddingsNotMixed ==
    /\ lossArgs # <<>> =>
          LET a == lossArgs[1]
          IN  /\ Len(a.embedd) = Len(layer_names)
              /\ Len(a.embedd_target) = Len(layer_names)
              /\ \A i \in 1..Len(layer_names) :
                    /\ a.embedd[i] = Act(layer_names[i], "source", a.X[2])
                    /\ a.embedd_target[i] = Act(layer_names[i], "target", batch_target)
    /\ pc = "train_record" =>
          /\ lossArgs # <<>>
          /\ lossArgs[1].X = <<"source", cursor>>
          /\ \A l \in Range(layer_names) :
                /\ l \in DOMAIN intermediate_layers
                /\ intermediate_layers[l] = Act(l, "target", batch_target)

\* A train step on the second source batch: the map held target activations
\* of the previous step when it began.
C6_Witness ==
    /\ pc = "train_record"
    /\ cursor = 2
    /\ lossArgs # <<>>

\* Events of the trace after the last on_batch_begin.
SinceBatchBegin(name) ==
    LET begins == { i \in DOMAIN trace : trace[i].ev = "on_batch_begin" }
        last   == CHOOSE i \in begins : \A j \in begins : j <= i
    IN  Cardinality({ i \in DOMAIN trace : i > last /\ trace[i].ev = name })

\* C7: when the optimizer evaluates the closure k >= 1 times in one step,
\* train_step returns the step the accumulator holds after the k-th
\* evaluation, that is the step it last recorded (with one evaluation, the
\* step of that evaluation).
C7_AccumulatedStepReturned ==
    pc = "train_record" =>
        /\ SinceBatchBegin("on_grad_computed") = closures
        /\ SinceBatchBegin("store_step") = closures
        /\ step # <<>>
        /\ step = step_accumulator
        /\ step[1].loss = [term |-> "total", batch |-> cursor,
                           inv |-> IF accumulator = "first" THEN 1 ELSE closures]
        /\ closures = 1 => step[1].loss.inv = 1

\* The closure was evaluated more than once and the accumulator keeps the
\* latest step.
C7_Witness ==
    /\ pc = "train_record"
    /\ closures > 1
    /\ accumulator = "last"
    /\ step # <<>>
    /\ step[1].loss.inv = closures

----------------------------------------------------------------------------
\* The notifications of the running call, in order.
NotificationNames ==
    {"on_train_begin", "on_train_end", "on_epoch_begin", "on_epoch_end",
     "on_batch_begin", "on_batch_end", "on_grad_computed"}

IsNotification(e) == e.ev \in NotificationNames

Notifications == SelectSeq(trace, IsNotification)

\* Reading one notification e in nesting state n.  lvl is the innermost open
\* bracket, pass the pass of the epoch the last batch belonged to, open
\* whether on_train_end found an epoch or a batch not closed.
NestStart ==
    [lvl |-> "start", pass |-> "train", tr |-> FALSE, b |-> 0, open |-> FALSE]

NestStep(n, e) ==
    IF n.lvl = "start" /\ e.ev = "on_train_begin"
        THEN [n EXCEPT !.lvl = "train"]
    ELSE IF n.lvl = "train" /\ e.ev = "on_epoch_begin"
        THEN [n EXCEPT !.lvl = "epoch", !.pass = "train"]
    ELSE IF /\ n.lvl = "epoch" /\ e.ev = "on_batch_begin"
            /\ ~(e.training /\ n.pass = "valid")
        THEN [n EXCEPT !.lvl = "batch", !.tr = e.training, !.b = e.batch,
                       !.pass = IF e.training THEN "train" ELSE "valid"]
    ELSE IF /\ n.lvl = "batch" /\ e.ev = "on_grad_computed"
            /\ n.tr /\ e.batch = n.b
        THEN n
    ELSE IF /\ n.lvl = "batch" /\ e.ev = "on_batch_end"
            /\ e.training = n.tr /\ e.batch = n.b
        THEN [n EXCEPT !.lvl = "epoch"]
    ELSE IF n.lvl = "epoch" /\ e.ev = "on_epoch_end"
        THEN [n EXCEPT !.lvl = "train"]
    ELSE IF n.lvl \in {"train", "epoch", "batch"} /\ e.ev = "on_train_end"
        THEN [n EXCEPT !.lvl = "end", !.open = (n.lvl # "train")]
    ELSE [n EXCEPT !.lvl = "bad"]

RECURSIVE NestFold(_, _, _)
NestFold(n, s, i) ==
    IF i > Len(s) THEN n ELSE NestFold(NestStep(n, s[i]), s, i + 1)

\* C8: the notifications of a call are properly nested: on_train_begin first,
\* each on_epoch_end closing the open on_epoch_begin, each on_batch_begin
\* closed by its on_batch_end before the next one, batches only inside an
\* epoch with the training batches before the validation batches, and an
\* epoch or batch left open at on_train_end only after an interrupt.
C8_NotificationsNested ==
    LET n == NestFold(NestStart, Notifications, 1)
    IN  /\ n.lvl # "bad"
        /\ (n.lvl = "end" /\ n.open) => interrupted
        /\ (pc = "idle" /\ outcome = "returned") => n.lvl = "end"

\* A call that ran two epochs, each with training and validation batches, to
\* its normal end.
C8_Witness ==
    /\ pc = "idle"
    /\ outcome = "returned"
    /\ ~interrupted
    /\ Count("on_epoch_end") = 2
    /\ \E k \in DOMAIN trace : trace[k].ev = "on_batch_end" /\ trace[k].training
    /\ \E k \in DOMAIN trace : trace[k].ev = "on_batch_end" /\ ~trace[k].training

\* The epochs argument of the running call, or max_epochs when it is None.
ConfiguredEpochs == IF epochsArg = <<>> THEN max_epochs ELSE epochsArg[1]

\* Training batches one pass processes.
PassLength == IF Mismatches = {} THEN Len(data.train) ELSE FirstMismatch - 1

TrainBegins ==
    Cardinality({ k \in DOMAIN trace :
                    trace[k].ev = "on_batch_begin" /\ trace[k].training })

ValidBegins ==
    Cardinality({ k \in DOMAIN trace :
                    trace[k].ev = "on_batch_begin" /\ ~trace[k].training })

C9_AtReturn ==
    /\ Count("on_epoch_begin") <= ConfiguredEpochs
    /\ (pc = "idle" /\ outcome = "returned" /\ ~interrupted) =>
          /\ Count("on_epoch_begin") = ConfiguredEpochs
          /\ Count("on_epoch_end") = ConfiguredEpochs
          /\ Count("record_train_batch_count") = ConfiguredEpochs
          /\ TrainBegins = ConfiguredEpochs * PassLength
          /\ data.has_valid =>
                /\ Count("record_valid_batch_count") = ConfiguredEpochs
                /\ ValidBegins = ConfiguredEpochs * Len(data.valid)

\* Steps one epoch takes at most, and the steps the running call still has
\* before it: a natural number that every step of the call decreases.
TrainSteps == 3 * Len(data.train) + 2

EpochSteps == TrainSteps + 2 * Len(data.valid) + 2

Remaining ==
    LET left == (epochs - epoch) * EpochSteps
    IN  IF pc = "partial_fit" THEN (ConfiguredEpochs + 1) * EpochSteps + 1
        ELSE IF pc = "fit_loop" THEN (ConfiguredEpochs + 1) * EpochSteps
        ELSE IF pc = "epoch" THEN left
        ELSE IF pc = "train_iter" THEN left - 1 - 3 * (cursor - 1)
        ELSE IF pc = "train_step" THEN left - 2 - 3 * (cursor - 1)
        ELSE IF pc = "train_record" THEN left - 3 - 3 * (cursor - 1)
        ELSE IF pc = "valid_iter" THEN left - TrainSteps - 2 * (cursor - 1)
        ELSE IF pc = "valid_step" THEN left - TrainSteps - 1 - 2 * (cursor - 1)
        ELSE IF pc = "epoch_end" THEN left - EpochSteps + 1
        ELSE 0

C9_Decreases ==
    (pc # "idle" /\ pc' # "idle") => (Remaining' < Remaining /\ Remaining' >= 0)

\* C9: a call always leaves the fit loop (each step of the call decreases the
\* number of steps it still has before it), and when no interrupt and no error
\* occurred it has run exactly the configured number of epochs (the epochs
\* argument, or max_epochs when that is None); a size mismatch ends only the
\* training pass of its epoch: the validation pass of that epoch and every
\* later epoch, starting again at the first source batch, still run.
C9_RunsConfiguredEpochs ==
    /\ []C9_AtReturn
    /\ [][C9_Decreases]_vars

\* Two epochs ran to the end, each processing one batch before a mismatch.
C9_Witness ==
    /\ pc = "idle"
    /\ outcome = "returned"
    /\ ~interrupted
    /\ epochsArg = <<>>
    /\ Mismatches # {}
    /\ TrainBegins = 2 * PassLength
    /\ PassLength > 0

ValidKeys == {"valid_loss", "valid_batch_size", "valid_batch_count"}

\* C10: the validation pass runs exactly when a validation dataset exists.
\* Without one there is no valid_ history entry and no batch notification
\* with training = False.  With one, every validation batch goes through
\* validation_step alone, records valid_loss and valid_batch_size, and
\* valid_batch_count is the number of validation batches whatever the
\* training pass processed.
C10_ValidationPass ==
    /\ ~data.has_valid =>
          /\ \A r \in Rows :
                /\ (DOMAIN r.vals) \cap ValidKeys = {}
                /\ \A i \in DOMAIN r.batches :
                      (DOMAIN r.batches[i]) \cap ValidKeys = {}
          /\ \A k \in DOMAIN trace : ~trace[k].training =>
                trace[k].ev \notin {"on_batch_begin", "on_batch_end",
                                    "validation_step", "record_valid_batch_count"}
    /\ data.has_valid =>
          /\ \A k \in DOMAIN trace :
                /\ (trace[k].ev = "on_batch_begin" /\ ~trace[k].training
                        /\ k < Len(trace)) =>
                      \/ trace[k + 1] = Ev("validation_step", FALSE, trace[k].batch)
                      \/ trace[k + 1].ev = "on_train_end"
                /\ (trace[k].ev = "on_batch_end" /\ ~trace[k].training) =>
                      /\ trace[k - 1] = Ev("validation_step", FALSE, trace[k].batch)
                      /\ trace[k - 2] = Ev("on_batch_begin", FALSE, trace[k].batch)
                /\ trace[k].ev = "validation_step" =>
                      trace[k - 1] = Ev("on_batch_begin", FALSE, trace[k].batch)
          /\ \A r \in Rows :
                /\ \A i \in DOMAIN r.batches :
                      (DOMAIN r.batches[i]) \cap ValidKeys # {} =>
                          /\ DOMAIN r.batches[i] = {"valid_loss", "valid_batch_size"}
                          /\ r.batches[i]["valid_batch_size"] \in Range(data.valid)
                /\ "valid_batch_count" \in DOMAIN r.vals =>
                      /\ r.vals["valid_batch_count"] = Len(data.valid)
                      /\ BatchEntries(r, "valid_loss") = Len(data.valid)
                      /\ BatchEntries(r, "valid_batch_size") = Len(data.valid)
          /\ Count("record_valid_batch_count") <= Count("on_epoch_begin")
          /\ Count("on_epoch_end") <= Count("record_valid_batch_count")

\* An epoch whose training pass processed nothing and whose validation pass
\* went over both validation batches.
C10_Witness ==
    /\ data.has_valid
    /\ pc = "epoch_end"
    /\ PassRecorded(Last(history))
    /\ Last(history).vals["train_batch_count"] = 0
    /\ "valid_batch_count" \in DOMAIN Last(history).vals
    /\ Last(history).vals["valid_batch_count"] = 2

----------------------------------------------------------------------------
\* Events that mark an error raised by the module or the loss.
ErrorEvents ==
    {"forward_source_raises", "forward_target_raises", "loss_raises",
     "backward_raises", "validation_forward_raises"}

Raised == \E k \in DOMAIN trace : trace[k].ev \in ErrorEvents

\* C11: an error that is not a KeyboardInterrupt, raised by a forward pass,
\* the loss contract or the backward pass, is not caught: the call ends with
\* the exception at that point (nothing of the call runs after the raise, the
\* batch and the epoch stay open, nothing is recorded for the batch), and
\* on_train_end is not notified in that call.
C11_ErrorPropagates ==
    Raised =>
        /\ pc = "idle"
        /\ outcome = "raised"
        /\ ~interrupted
        /\ Last(trace).ev \in ErrorEvents
        /\ Cardinality({ k \in DOMAIN trace : trace[k].ev \in ErrorEvents }) = 1
        /\ Count("on_train_end") = 0
        /\ Count("on_batch_begin") = Count("on_batch_end") + 1
        /\ Count("on_epoch_begin") = Count("on_epoch_end") + 1
        /\ Last(Last(history).batches) = <<>>
        /\ (DOMAIN Last(history).vals) \cap {"train_batch_count", "valid_batch_count"}
              = (IF Last(trace).training THEN {} ELSE {"train_batch_count"})

\* The backward pass raised in the second evaluation of the closure, in the
\* second epoch of the call.
C11_Witness ==
    /\ outcome = "raised"
    /\ Last(trace).ev = "backward_raises"
    /\ SinceBatchBegin("on_grad_computed") = 1
    /\ Count("on_epoch_end") = 1

----------------------------------------------------------------------------
\* A declared layer is not a layer of the module.
AbsentLayer == \E l \in Range(layer_names) : l \notin module_layers

\* C12: with a declared layer that is not a layer of the module, every fit or
\* partial_fit call ends at module initialization with the error raised by
\* the hook registration: the estimator never becomes initialized, no
\* notification is sent, no epoch or batch step starts, no forward pass runs
\* (the activation map stays empty) and nothing is recorded.
C12_AbsentLayerRaisesAtInitialization ==
    AbsentLayer =>
        /\ pc = "idle"
        /\ ~initialized_
        /\ outcome \in {"none", "raised"}
        /\ outcome = "raised" =>
              trace = << Ev("initialize", FALSE, 0),
                         Ev("register_forwards_hook_raises", FALSE, 0) >>
        /\ history = <<>>
        /\ intermediate_layers = <<>>
        /\ params = 0

\* A fit call on a module without the declared layer "fc" ended with the
\* error.
C12_Witness ==
    /\ AbsentLayer
    /\ kind = "fit"
    /\ outcome = "raised"
    /\ Last(trace).ev = "register_forwards_hook_raises"

----------------------------------------------------------------------------
\* C13 as stated: however often initialize_module has run on the estimator,
\* each declared layer of self.module_ carries exactly one capture hook (so
\* that a forward pass writes each declared layer's entry of the activation
\* map once: every hook of a layer writes that layer's entry).
C13_AsStated ==
    initialized_ => \A l \in Range(layer_names) : hooks[l] = 1

----------------------------------------------------------------------------
\* Every entry of history h is in history g, with the value it has in h.
Extends(h, g) ==
    /\ Len(h) <= Len(g)
    /\ \A i \in DOMAIN h :
        /\ \A k \in DOMAIN h[i].vals :
              k \in DOMAIN g[i].vals /\ g[i].vals[k] = h[i].vals[k]
        /\ Len(h[i].batches) <= Len(g[i].batches)
        /\ \A j \in DOMAIN h[i].batches :
              \A k \in DOMAIN h[i].batches[j] :
                  /\ k \in DOMAIN g[i].batches[j]
                  /\ g[i].batches[j][k] = h[i].batches[j][k]

RECURSIVE BatchRowsSize(_, _)
BatchRowsSize(b, j) ==
    IF j > Len(b) THEN 0
    ELSE 1 + Cardinality(DOMAIN b[j]) + BatchRowsSize(b, j + 1)

\* Epoch rows, batch rows and recorded values of the rows i.. of history h.
RECURSIVE HistorySize(_, _)
HistorySize(h, i) ==
    IF i > Len(h) THEN 0
    ELSE 1 + Cardinality(DOMAIN h[i].vals) + BatchRowsSize(h[i].batches, 1)
           + HistorySize(h, i + 1)

\* The history operations of the step that leaves position pc, unless the
\* step ends the call: new_epoch, new_batch, record_batch and record calls.
HistoryOps ==
    IF pc' = "idle" THEN 0
    ELSE IF pc \in {"epoch", "train_iter", "valid_iter"} THEN 1
    ELSE IF pc = "train_record" THEN 4
    ELSE IF pc = "valid_step" THEN 2
    ELSE 0

\* The first step of a fit call, which initializes unless warm_start is set
\* and the estimator is initialized.
FitEntry == pc = "idle" /\ pc' = "partial_fit"

C14_Step ==
    IF FitEntry
        THEN IF warm_start /\ initialized_
                THEN history' = history
                ELSE history' = <<>>
        ELSE /\ Extends(history, history')
             /\ HistorySize(history', 1) = HistorySize(history, 1) + HistoryOps

\* C14: in every step of a fit or partial_fit call after the initialization
\* of fit, every entry the history holds (recorded earlier in the call or, for
\* partial_fit and warm-started fit, in earlier calls) is still there with its
\* value, and each history operation of the step has added one row or one
\* value.
C14_HistoryAppendOnly == [][C14_Step]_vars

\* A partial_fit call continuing the history of an earlier call has recorded
\* a second training batch in its own epoch.
C14_Witness ==
    /\ kind = "partial_fit"
    /\ Count("initialize") = 0
    /\ Len(history) = 2
    /\ BatchEntries(history[1], "train_loss") >= 1
    /\ BatchEntries(history[2], "train_batch_size") = 2
    /\ pc = "train_iter"

----------------------------------------------------------------------------
\* C15: every source batch of a training pass is paired with the first batch
\* of the target iterator.  Every target prediction and target activation the
\* estimator ever holds or hands to the loss contract comes from target batch
\* 1, and every source batch that was processed has the size of target batch
\* 1: no later target batch is ever used.
C15_TargetAlwaysFirst ==
    /\ \A l \in DOMAIN intermediate_layers :
          intermediate_layers[l][2] = "target" => intermediate_layers[l][3] = 1
    /\ lossArgs # <<>> =>
          /\ lossArgs[1].y_pred_target = <<"pred", "target", 1>>
          /\ \A i \in DOMAIN lossArgs[1].embedd_target :
                lossArgs[1].embedd_target[i] = Act(layer_names[i], "target", 1)
    /\ (step # <<>> /\ "y_pred_target" \in DOMAIN step[1]) =>
          step[1].y_pred_target = <<"pred", "target", 1>>
    /\ \A k \in DOMAIN trace :
          TrainEventAt(k) => data.train[trace[k].batch] = data.target[1]

\* The second source batch of a pass went through the train step, with a
\* target iterator of several batches.
C15_Witness ==
    /\ pc = "train_record"
    /\ cursor = 2
    /\ Len(data.target) > 1
    /\ lossArgs # <<>>
    /\ lossArgs[1].X = <<"source", 2>>
    /\ lossArgs[1].y_pred_target = <<"pred", "target", 1>>

----------------------------------------------------------------------------
\* The position of the last on_epoch_begin before position k of the trace.
EpochStart(k) ==
    CHOOSE b \in 1..(k - 1) :
        /\ trace[b].ev = "on_epoch_begin"
        /\ \A c \in (b + 1)..(k - 1) : trace[c].ev # "on_epoch_begin"

\* Events of the given name and mode strictly between positions b and k.
Between(b, k, name, tr) ==
    Cardinality({ i \in (b + 1)..(k - 1) :
                    trace[i].ev = name /\ trace[i].training = tr })

TrainKeys ==
    {"train_loss", "train_loss_classif", "train_loss_da", "train_batch_size"}

\* C16: when a training pass ends (by exhaustion or on a size mismatch), the
\* train_batch_count it records is the number of on_batch_begin notifications
\* with training = True of that epoch, of the on_batch_end notifications, of
\* the train_step executions, and of the batch rows of the epoch holding each
\* of train_loss, train_loss_classif, train_loss_da and train_batch_size; and
\* each epoch that ends has recorded train_batch_count exactly once.
C16_BatchCountMatches ==
    /\ \A k \in DOMAIN trace :
          /\ trace[k].ev = "record_train_batch_count" =>
                LET b == EpochStart(k)
                    n == trace[k].batch
                IN  /\ Between(b, k, "on_batch_begin", TRUE) = n
                    /\ Between(b, k, "on_batch_end", TRUE) = n
                    /\ Between(b, k, "train_step", TRUE) = n
                    /\ Between(b, k, "record_train_batch_count", TRUE) = 0
          /\ trace[k].ev = "on_epoch_end" =>
                Between(EpochStart(k), k, "record_train_batch_count", TRUE) = 1
    /\ \A r \in Rows :
          PassRecorded(r) =>
              \A key \in TrainKeys :
                  BatchEntries(r, key) = r.vals["train_batch_count"]
    /\ (trace # <<>> /\ Last(trace).ev = "record_train_batch_count") =>
          /\ PassRecorded(Last(history))
          /\ Last(history).vals["train_batch_count"] = Last(trace).batch

\* A pass that processed two batches and ended on a size mismatch has
\* recorded its count, in the second epoch of the call.
C16_Witness ==
    /\ Mismatches # {}
    /\ Count("on_epoch_end") = 1
    /\ trace # <<>>
    /\ Last(trace).ev = "record_train_batch_count"
    /\ Last(trace).batch = 2

----------------------------------------------------------------------------
\* The length of the longest prefix of s whose elements all equal t.
PrefixLength(s, t) ==
    CHOOSE k \in 0..Len(s) :
        /\ \A i \in 1..k : s[i] = t
        /\ k < Len(s) => s[k + 1] # t

\* C17: for source batches of sizes s_1..s_n and a target iterator whose first
\* batch has size t, a training pass processes, and records as
\* train_batch_count, the length of the longest prefix of s_1..s_n with every
\* size equal to t: 0 when s_1 # t, n when every source batch has size t.
C17_CountIsMatchingPrefix ==
    LET s == data.train
        t == data.target[1]
        n == PrefixLength(s, t)
    IN  \A r \in Rows :
            /\ BatchEntries(r, "train_batch_size") <= n
            /\ PassRecorded(r) =>
                  /\ r.vals["train_batch_count"] = n
                  /\ BatchEntries(r, "train_batch_size") = n
                  /\ (s # <<>> /\ s[1] # t) => r.vals["train_batch_count"] = 0
                  /\ (\A i \in DOMAIN s : s[i] = t) =>
                        r.vals["train_batch_count"] = Len(s)

\* A pass over source batches 4,5,4 with target batches 4,5 has recorded its
\* count: the second source batch has the size of the second target batch,
\* not of the first.
C17_Witness ==
    /\ data.train = <<4, 5, 4>>
    /\ data.target = <<4, 5>>
    /\ pc = "epoch_end"
    /\ PassRecorded(Last(history))
    /\ Last(history).vals["train_batch_count"] = 1

----------------------------------------------------------------------------
\* Closure evaluations completed in the train step that position k of the
\* trace belongs to, up to k.
EvaluationsUpTo(k) ==
    LET b == CHOOSE i \in 1..k :
                 /\ trace[i].ev = "train_step"
                 /\ \A c \in (i + 1)..k : trace[c].ev # "train_step"
    IN  Cardinality({ i \in b..k : trace[i].ev = "on_grad_computed" })

\* C18: in train_step every evaluation of the closure, the first and each
\* further one the optimizer asks for, runs in this order: the gradients are
\* cleared, train_step_single runs, its step is stored in the accumulator,
\* on_grad_computed is notified once, the total loss of that evaluation is
\* returned.  The optimizer updates the parameters only after an evaluation
\* has returned, hence after the first on_grad_computed of the step, and the
\* gradients at the update are those of one backward pass.
C18_ClosureOrder ==
    /\ \A k \in DOMAIN trace :
          LET e    == trace[k].ev
              prev == IF k > 1 THEN trace[k - 1].ev ELSE "none"
              next == IF k < Len(trace) THEN trace[k + 1].ev ELSE "none"
          IN  /\ e = "train_step" =>
                    /\ prev = "on_batch_begin"
                    /\ next \in {"zero_grad", "none"}
              /\ e = "zero_grad" =>
                    /\ prev \in {"train_step", "step_fn_returns"}
                    /\ next \in {"train_step_single", "none"}
              /\ e = "train_step_single" =>
                    /\ prev = "zero_grad"
                    /\ next \in {"store_step", "none"} \cup ErrorEvents
              /\ e = "store_step" =>
                    /\ prev = "train_step_single"
                    /\ next \in {"on_grad_computed", "none"}
              /\ e = "on_grad_computed" =>
                    /\ prev = "store_step"
                    /\ next \in {"step_fn_returns", "none"}
              /\ e = "step_fn_returns" =>
                    /\ prev = "on_grad_computed"
                    /\ trace[k].value = [term  |-> "total",
                                         batch |-> trace[k].batch,
                                         inv   |-> EvaluationsUpTo(k)]
              /\ e = "optimizer_update" =>
                    /\ prev = "step_fn_returns"
                    /\ EvaluationsUpTo(k) >= 1
                    /\ EvaluationsUpTo(k) = closures
    /\ pc = "train_record" =>
          /\ Last(trace).ev = "optimizer_update"
          /\ grads = 1

\* A train step in which the optimizer evaluated the closure more than once
\* has updated the parameters.
C18_Witness ==
    /\ pc = "train_record"
    /\ closures > 1
    /\ SinceBatchBegin("zero_grad") = closures
    /\ SinceBatchBegin("step_fn_returns") = closures
    /\ Last(trace).ev = "optimizer_update"

----------------------------------------------------------------------------
\* The step is a whole train step: train_step returns to run_single_epoch.
TrainStepDone == pc = "train_step" /\ pc' = "train_record"

C19_Step ==
    /\ TrainStepDone =>
          /\ params' = params + 1
          /\ CountIn(trace', "optimizer_update")
                = CountIn(trace, "optimizer_update") + 1
    /\ (pc # "idle" /\ ~TrainStepDone) =>
          /\ params' = params
          /\ CountIn(trace', "optimizer_update") = CountIn(trace, "optimizer_update")
    /\ pc = "idle" =>
          /\ params' \in {params, 0}
          /\ CountIn(trace', "optimizer_update") = 0

\* The training batch whose notification on_batch_begin is at position b: the
\* events from b up to the next on_batch_begin, or to the end of the trace.
BatchSpan(b) ==
    { i \in DOMAIN trace :
          /\ i > b
          /\ \A c \in (b + 1)..i : trace[c].ev # "on_batch_begin" }

UpdatesIn(b) ==
    Cardinality({ i \in BatchSpan(b) : trace[i].ev = "optimizer_update" })

C19_Updates ==
    /\ \A b \in DOMAIN trace :
          (trace[b].ev = "on_batch_begin" /\ trace[b].training) =>
              /\ UpdatesIn(b) <= 1
              /\ (\E e \in BatchSpan(b) : trace[e].ev = "on_batch_end")
                    => UpdatesIn(b) = 1
              /\ data.train[trace[b].batch] = data.target[1]
    /\ \A b \in DOMAIN trace :
          (trace[b].ev = "on_batch_begin" /\ ~trace[b].training) =>
              UpdatesIn(b) = 0
    /\ \A k \in DOMAIN trace :
          trace[k].ev = "optimizer_update" =>
              /\ trace[k].training
              /\ data.train[trace[k].batch] = data.target[1]
              /\ \E b \in 1..(k - 1) :
                    /\ trace[b] = Ev("on_batch_begin", TRUE, trace[k].batch)
                    /\ k \in BatchSpan(b)
    /\ Count("optimizer_update") <= Count("train_step")

\* C19: once a call is past its initialization, the parameters change in no
\* step but a whole train step, which changes them once, by the update of the
\* optimizer.  Evaluations of the closure alone (train_step_single followed
\* by an interrupt or an error), validation steps, size checks and
\* notifications leave them as they are.  Within a call there is one update
\* for every training batch processed, none for a validation batch, none for
\* a source batch whose size differs from the target batch's, and never two
\* for the same batch of the same epoch; a batch whose on_batch_end has been
\* notified has had exactly one.
C19_ParamsChangeOnlyByOptimizer ==
    /\ [][C19_Step]_vars
    /\ []C19_Updates

\* In an epoch with validation data the one matching source batch has been
\* processed, the next was skipped for its size and the validation batch went
\* through validation_step: the parameters were updated once.
C19_Witness ==
    /\ data.train = <<4, 2, 4>>
    /\ data.has_valid
    /\ pc = "epoch_end"
    /\ Count("validation_step") = 1
    /\ Count("on_epoch_begin") = 1
    /\ Count("initialize") = 1
    /\ params = 1

====
